---- MODULE Spec2Model ----
(***************************************************************************)
(* Study-plan scheduler: the entity store (Subject, Chapter, StudySession, *)
(* StudyPlan, ScheduleAdaptation), the ScheduleManager operations on it    *)
(* and the route handlers that call them.                                  *)
(*                                                                         *)
(* Encoding of values                                                      *)
(*   - a table is a sequence of rows; a row's id is its position (ids are  *)
(*     handed out in increasing order and rows are only removed by the     *)
(*     full reset);                                                        *)
(*   - a datetime is a pair <<day, hour>>, ordered lexicographically;      *)
(*   - a text field that the code parses (a date string, a time string) is *)
(*     a tuple: <<v>> is the well-formed text denoting v, <<>> is text that*)
(*     strptime rejects;                                                   *)
(*   - an optional dictionary key is a tuple too: <<>> absent, <<v>> set;  *)
(*   - a chapter title is a pair such as <<"Chapter", 1>> ("Chapter 1");   *)
(*   - durations are whole numbers of half hours;                          *)
(*   - the committed store is the state; db.session's pending changes live *)
(*     inside one handler (one action) and are committed or rolled back    *)
(*     before it ends.                                                     *)
(* Columns no operation in scope reads (created_at, updated_at, actual     *)
(* start/end times, difficulty, summaries, ai_reasoning, changes_made) are *)
(* not carried in the rows.                                                *)
(***************************************************************************)
EXTENDS Integers, Sequences, FiniteSets, TLC

VARIABLES subjects, chapters, sessions, study_plans, adaptations, last

vars == <<subjects, chapters, sessions, study_plans, adaptations, last>>

(* ------------------------------ bounds -------------------------------- *)
\* subject, plan, session and adaptation rows the store may hold in all
MaxRows == 5

(* --------------------------- input domains ---------------------------- *)
\* total_chapters values a subject form may carry
ChapterCounts == {2}

\* reasons a miss request may carry
Reasons == {"illness"}

\* a date or time string that strptime rejects
NoText == <<>>

\* wall-clock readings
Nows == {<<1, 9>>, <<1, 15>>}
Horizons == {0, 1, 2}

(* ------------------------------ helpers ------------------------------- *)
\* a <= b on datetimes
DtLeq(a, b) == a[1] < b[1] \/ (a[1] = b[1] /\ a[2] <= b[2])

\* datetime + timedelta(days=n)
DtAddDays(a, n) == <<a[1] + n, a[2]>>

\* datetime.strptime(f"{date_str} {time_str}", '%Y-%m-%d %H:%M')
strptime_ok(date_str, time_str) == date_str # <<>> /\ time_str # <<>>
strptime(date_str, time_str) == <<date_str[1], time_str[1]>>

\* datetime.strptime(date_str, '%Y-%m-%d')
strptime_date_ok(date_str) == date_str # <<>>

Ids(table) == 1..Len(table)

Min(S) == CHOOSE x \in S : \A y \in S : x <= y

\* A variant of FirstChapterByTitle that yields the last chapter with the title.
LastChapterByTitle(chs, title) ==
  LET hit == {c \in Ids(chs) : chs[c].title = title}
  IN IF hit = {} THEN 0 ELSE CHOOSE x \in hit : \A y \in hit : y <= x

\* Chapter.query.filter_by(title=...).first(): the id, 0 for None
FirstChapterByTitle(chs, title) ==
  LET hit == {c \in Ids(chs) : chs[c].title = title}
  IN IF hit = {} THEN 0 ELSE Min(hit)

\* A variant of FirstScheduledOfChapter without the status filter.
FirstSessionOfChapter(ss, cid) ==
  LET hit == {i \in Ids(ss) : ss[i].chapter_id = cid}
  IN IF hit = {} THEN 0 ELSE Min(hit)

\* StudySession.query.filter_by(chapter_id=..., status='scheduled').first()
FirstScheduledOfChapter(ss, cid) ==
  LET hit == {i \in Ids(ss) : ss[i].chapter_id = cid /\ ss[i].status = "scheduled"}
  IN IF hit = {} THEN 0 ELSE Min(hit)

\* a call that takes no reason
NoReason == "<none>"

\* notes = None
NoNotes == "<None>"

StudySession(cid, dt, dur, st) ==
  [chapter_id |-> cid, scheduled_date |-> dt, duration_hours |-> dur,
   status |-> st, notes |-> NoNotes]

Init ==
  /\ subjects = <<>>
  /\ chapters = <<>>
  /\ sessions = <<>>
  /\ study_plans = <<>>
  /\ adaptations = <<>>
  /\ last = [op |-> "init", sid |-> 0, reason |-> NoReason, ret |-> TRUE, exc |-> FALSE,
             writes |-> 0]

(* ------------------------- oracle answers ----------------------------- *)
Ch1 == <<"Chapter", 1>>
Ch2 == <<"Chapter", 2>>
NoSuchTitle == <<"Appendix", 1>>

Desc(title, start_time, dur) ==
  [chapter_title |-> title, start_time |-> start_time, duration_hours |-> dur]

\* session descriptors of a schedule answer: well-formed ones for the two
\* titles the fallback breakdown creates and for a title no chapter has, one
\* with an unparseable start_time and one without the duration_hours key
DescCh1 == Desc(Ch1, <<9>>, <<4>>)
DescCh2 == Desc(Ch2, <<9>>, <<4>>)
DescUnknown == Desc(NoSuchTitle, NoText, <<4>>)
DescBadTime == Desc(Ch1, NoText, <<4>>)
DescNoDuration == Desc(Ch2, <<9>>, <<>>)

Day(date, descs) == [date |-> date, sessions |-> descs]

\* schedule answers: at most two days and three descriptors
AISchedules ==
  {<<>>, <<Day(NoText, <<DescCh1>>)>>, <<Day(<<1>>, <<DescCh1, DescCh2, DescCh1>>)>>}
  \cup {<<Day(dt, ds)>> :
          dt \in {<<1>>},
          ds \in {<<DescCh1>>, <<DescCh1, DescCh2>>, <<DescCh1, DescCh1>>,
                  <<DescUnknown, DescCh2>>, <<DescCh1, DescBadTime>>,
                  <<DescCh2, DescNoDuration>>}}
  \cup {<<Day(<<1>>, <<DescCh1>>), Day(dt, <<DescCh2>>)>> : dt \in {<<2>>, NoText}}

(* ------------------------ ScheduleManager ----------------------------- *)
\* scheduler.py:24-40, the descriptors of one day; acc = [raised, work]
RECURSIVE BuildSessions(_, _, _, _)
BuildSessions(date_str, descs, chs, acc) ==
  IF acc.raised \/ descs = <<>> THEN acc
  ELSE LET d == Head(descs)
           cid == FirstChapterByTitle(chs, d.chapter_title)
       IN IF cid = 0
          THEN BuildSessions(date_str, Tail(descs), chs, acc)
          ELSE IF ~strptime_ok(date_str, d.start_time) \/ d.duration_hours = <<>>
               THEN [acc EXCEPT !.raised = TRUE]
               ELSE BuildSessions(date_str, Tail(descs), chs,
                      [acc EXCEPT !.work = Append(@,
                          StudySession(cid, strptime(date_str, d.start_time),
                                       d.duration_hours[1], "scheduled"))])

\* scheduler.py:20-40, the days of the schedule
RECURSIVE BuildDays(_, _, _)
BuildDays(days, chs, acc) ==
  IF acc.raised \/ days = <<>> THEN acc
  ELSE LET day == Head(days)
       IN IF ~strptime_date_ok(day.date)
          THEN [acc EXCEPT !.raised = TRUE]
          ELSE BuildDays(Tail(days), chs, BuildSessions(day.date, day.sessions, chs, acc))

\* A variant of create_sessions_from_ai_schedule that commits what it has
\* built when a descriptor fails.
create_sessions_commit_partial(ai_schedule, chs, ss) ==
  LET r == BuildDays(ai_schedule, chs, [raised |-> FALSE, work |-> ss])
  IN [raised |-> r.raised, committed |-> r.work, pending |-> r.work,
      returned |-> IF r.raised THEN {} ELSE Ids(r.work) \ Ids(ss)]

\* create_sessions_from_ai_schedule: raised = an exception left the call;
\* committed = the sessions table as the call's own commit leaves it;
\* pending = the table as db.session sees it when the call ends;
\* returned = the ids of the sessions in the returned list
create_sessions_from_ai_schedule(ai_schedule, chs, ss) ==
  LET r == BuildDays(ai_schedule, chs, [raised |-> FALSE, work |-> ss])
  IN [raised |-> r.raised,
      committed |-> IF r.raised THEN ss ELSE r.work,
      pending |-> r.work,
      returned |-> IF r.raised THEN {} ELSE Ids(r.work) \ Ids(ss)]

\* f"Missed session. Reason: {reason or 'Not specified'}"
MissedNote(reason) ==
  CASE reason = "" -> "Missed session. Reason: Not specified"
    [] reason = "illness" -> "Missed session. Reason: illness"

\* A variant of mark_session_completed that counts rescheduled sessions as
\* remaining.
mark_session_completed_all_pending(session_id, notes, chs, ss) ==
  IF session_id \notin Ids(ss)
  THEN [ret |-> FALSE, sessions |-> ss, chapters |-> chs]
  ELSE LET ss1 == [ss EXCEPT ![session_id].status = "completed",
                             ![session_id].notes = notes]
           cid == ss[session_id].chapter_id
           remaining_sessions ==
             Cardinality({i \in Ids(ss1) : ss1[i].chapter_id = cid
                                           /\ ss1[i].status \in {"scheduled", "rescheduled"}})
       IN [ret |-> TRUE, sessions |-> ss1,
           chapters |-> IF remaining_sessions = 0
                        THEN [chs EXCEPT ![cid].is_completed = TRUE]
                        ELSE chs]

\* mark_session_completed: ret and the two tables as committed
mark_session_completed(session_id, notes, chs, ss) ==
  IF session_id \notin Ids(ss)
  THEN [ret |-> FALSE, sessions |-> ss, chapters |-> chs]
  ELSE LET ss1 == [ss EXCEPT ![session_id].status = "completed",
                             ![session_id].notes = notes]
           cid == ss[session_id].chapter_id
           remaining_sessions ==
             Cardinality({i \in Ids(ss1) : ss1[i].chapter_id = cid
                                           /\ ss1[i].status = "scheduled"})
       IN [ret |-> TRUE, sessions |-> ss1,
           chapters |-> IF remaining_sessions = 0
                        THEN [chs EXCEPT ![cid].is_completed = TRUE]
                        ELSE chs]

\* A variant of mark_session_missed that writes another status word.
mark_session_missed_as_skipped(session_id, reason, ss) ==
  IF session_id \notin Ids(ss)
  THEN [ret |-> FALSE, sessions |-> ss]
  ELSE [ret |-> TRUE,
        sessions |-> [ss EXCEPT ![session_id].status = "skipped",
                                ![session_id].notes = MissedNote(reason)]]

\* A variant of mark_session_missed that appends to the note it finds.
mark_session_missed_appending(session_id, reason, ss) ==
  IF session_id \notin Ids(ss)
  THEN [ret |-> FALSE, sessions |-> ss]
  ELSE [ret |-> TRUE,
        sessions |-> [ss EXCEPT ![session_id].status = "missed",
                                ![session_id].notes =
                                   IF @ = NoNotes THEN MissedNote(reason) ELSE "<appended>"]]

\* mark_session_missed: ret and the sessions table as committed
mark_session_missed(session_id, reason, ss) ==
  IF session_id \notin Ids(ss)
  THEN [ret |-> FALSE, sessions |-> ss]
  ELSE [ret |-> TRUE,
        sessions |-> [ss EXCEPT ![session_id].status = "missed",
                                ![session_id].notes = MissedNote(reason)]]

\* A variant of ApplyAdjustments that moves a session whatever the entry's
\* change_type.
RECURSIVE ApplyAdjustmentsAnyType(_, _, _)
ApplyAdjustmentsAnyType(adjustments, chs, acc) ==
  IF acc.raised \/ adjustments = <<>> THEN acc
  ELSE LET adjustment == Head(adjustments)
           rest == Tail(adjustments)
           cid == FirstChapterByTitle(chs, adjustment.original_session)
           i == FirstScheduledOfChapter(acc.work, cid)
       IN IF cid = 0 \/ i = 0
          THEN ApplyAdjustmentsAnyType(rest, chs, acc)
          ELSE IF ~strptime_ok(adjustment.new_date, adjustment.new_time)
               THEN [acc EXCEPT !.raised = TRUE]
               ELSE ApplyAdjustmentsAnyType(rest, chs,
                      [acc EXCEPT
                         !.work = [@ EXCEPT
                            ![i].scheduled_date =
                                strptime(adjustment.new_date, adjustment.new_time),
                            ![i].status = "rescheduled"],
                         !.moved = @ \cup {i}])

\* scheduler.py:142-159, the adjustment entries; acc = [raised, work, moved]
RECURSIVE ApplyAdjustments(_, _, _)
ApplyAdjustments(adjustments, chs, acc) ==
  IF acc.raised \/ adjustments = <<>> THEN acc
  ELSE LET adjustment == Head(adjustments)
           rest == Tail(adjustments)
           cid == FirstChapterByTitle(chs, adjustment.original_session)
           i == FirstScheduledOfChapter(acc.work, cid)
       IN IF adjustment.change_type # "reschedule" \/ cid = 0 \/ i = 0
          THEN ApplyAdjustments(rest, chs, acc)
          ELSE IF ~strptime_ok(adjustment.new_date, adjustment.new_time)
               THEN [acc EXCEPT !.raised = TRUE]
               ELSE ApplyAdjustments(rest, chs,
                      [acc EXCEPT
                         !.work = [@ EXCEPT
                            ![i].scheduled_date =
                                strptime(adjustment.new_date, adjustment.new_time),
                            ![i].status = "rescheduled"],
                         !.moved = @ \cup {i}])

\* A variant of AdaptationWork that writes the adaptation record inside the
\* reschedule block only.
AdaptationWorkRecordInBlock(adaptation_plan, original_session_id, reason, chs, ss, ads) ==
  LET original_session == ss[original_session_id]
      info == adaptation_plan.reschedule_missed
      block_raises == info # <<>> /\ ~strptime_ok(info[1].new_date, info[1].new_time)
      ads1 == IF info # <<>>
              THEN Append(ads, [original_session_id |-> original_session_id,
                                adaptation_reason |-> reason])
              ELSE ads
      ss1 == IF info # <<>> /\ ~block_raises
             THEN Append(ss, StudySession(
                      original_session.chapter_id,
                      strptime(info[1].new_date, info[1].new_time),
                      original_session.duration_hours
                        + (IF info[1].duration_adjustment = <<>> THEN 0
                           ELSE info[1].duration_adjustment[1]),
                      "rescheduled"))
             ELSE ss
      r == ApplyAdjustments(adaptation_plan.schedule_adjustments, chs,
                            [raised |-> block_raises, work |-> ss1, moved |-> {}])
  IN [raised |-> r.raised, sessions |-> r.work, adaptations |-> ads1,
      writes |-> (Len(ss1) - Len(ss)) + Cardinality(r.moved)]

\* A variant of AdaptationWork that adds the adaptation record after the
\* session changes, when none of them has raised.
AdaptationWorkRecordLast(adaptation_plan, original_session_id, reason, chs, ss, ads) ==
  LET original_session == ss[original_session_id]
      info == adaptation_plan.reschedule_missed
      block_raises == info # <<>> /\ ~strptime_ok(info[1].new_date, info[1].new_time)
      ss1 == IF info # <<>> /\ ~block_raises
             THEN Append(ss, StudySession(
                      original_session.chapter_id,
                      strptime(info[1].new_date, info[1].new_time),
                      original_session.duration_hours
                        + (IF info[1].duration_adjustment = <<>> THEN 0
                           ELSE info[1].duration_adjustment[1]),
                      "rescheduled"))
             ELSE ss
      r == ApplyAdjustments(adaptation_plan.schedule_adjustments, chs,
                            [raised |-> block_raises, work |-> ss1, moved |-> {}])
  IN [raised |-> r.raised, sessions |-> r.work,
      adaptations |-> IF r.raised THEN ads
                      ELSE Append(ads, [original_session_id |-> original_session_id,
                                        adaptation_reason |-> reason]),
      writes |-> (Len(ss1) - Len(ss)) + Cardinality(r.moved)]

\* A variant of AdaptationWork whose new session keeps the original duration.
AdaptationWorkSameDuration(adaptation_plan, original_session_id, reason, chs, ss, ads) ==
  LET original_session == ss[original_session_id]
      ads1 == Append(ads, [original_session_id |-> original_session_id,
                           adaptation_reason |-> reason])
      info == adaptation_plan.reschedule_missed
      block_raises == info # <<>> /\ ~strptime_ok(info[1].new_date, info[1].new_time)
      ss1 == IF info # <<>> /\ ~block_raises
             THEN Append(ss, StudySession(
                      original_session.chapter_id,
                      strptime(info[1].new_date, info[1].new_time),
                      original_session.duration_hours,
                      "rescheduled"))
             ELSE ss
      r == ApplyAdjustments(adaptation_plan.schedule_adjustments, chs,
                            [raised |-> block_raises, work |-> ss1, moved |-> {}])
  IN [raised |-> r.raised, sessions |-> r.work, adaptations |-> ads1,
      writes |-> (Len(ss1) - Len(ss)) + Cardinality(r.moved)]

\* scheduler.py:115-159, the body of the try block for a session that exists:
\* raised, the pending tables, the ids moved by adjustment entries
AdaptationWork(adaptation_plan, original_session_id, reason, chs, ss, ads) ==
  LET original_session == ss[original_session_id]
      ads1 == Append(ads, [original_session_id |-> original_session_id,
                           adaptation_reason |-> reason])
      info == adaptation_plan.reschedule_missed
      block_raises == info # <<>> /\ ~strptime_ok(info[1].new_date, info[1].new_time)
      ss1 == IF info # <<>> /\ ~block_raises
             THEN Append(ss, StudySession(
                      original_session.chapter_id,
                      strptime(info[1].new_date, info[1].new_time),
                      original_session.duration_hours
                        + (IF info[1].duration_adjustment = <<>> THEN 0
                           ELSE info[1].duration_adjustment[1]),
                      "rescheduled"))
             ELSE ss
      r == ApplyAdjustments(adaptation_plan.schedule_adjustments, chs,
                            [raised |-> block_raises, work |-> ss1, moved |-> {}])
  IN [raised |-> r.raised, sessions |-> r.work, adaptations |-> ads1,
      writes |-> (Len(ss1) - Len(ss)) + Cardinality(r.moved)]

\* A variant of apply_schedule_adaptation that refuses a session that already
\* has an adaptation record.
apply_schedule_adaptation_once(adaptation_plan, original_session_id, reason, chs, ss, ads) ==
  IF \/ original_session_id \notin Ids(ss)
     \/ \E k \in Ids(ads) : ads[k].original_session_id = original_session_id
  THEN [ret |-> FALSE, exc |-> FALSE, sessions |-> ss, adaptations |-> ads, writes |-> 0]
  ELSE LET w == AdaptationWork(adaptation_plan, original_session_id, reason, chs, ss, ads)
       IN IF w.raised
          THEN [ret |-> FALSE, exc |-> TRUE, sessions |-> ss, adaptations |-> ads,
                writes |-> w.writes]
          ELSE [ret |-> TRUE, exc |-> FALSE, sessions |-> w.sessions,
                adaptations |-> w.adaptations, writes |-> w.writes]

\* A variant of apply_schedule_adaptation whose except block commits.
apply_schedule_adaptation_no_rollback(adaptation_plan, original_session_id, reason, chs, ss, ads) ==
  IF original_session_id \notin Ids(ss)
  THEN [ret |-> FALSE, exc |-> FALSE, sessions |-> ss, adaptations |-> ads, writes |-> 0]
  ELSE LET w == AdaptationWork(adaptation_plan, original_session_id, reason, chs, ss, ads)
       IN [ret |-> ~w.raised, exc |-> w.raised, sessions |-> w.sessions,
           adaptations |-> w.adaptations, writes |-> w.writes]

\* A variant of apply_schedule_adaptation that records the adaptation before
\* it looks the session up.
apply_schedule_adaptation_record_first(adaptation_plan, original_session_id, reason, chs, ss, ads) ==
  IF original_session_id \notin Ids(ss)
  THEN [ret |-> FALSE, exc |-> FALSE, sessions |-> ss,
        adaptations |-> Append(ads, [original_session_id |-> original_session_id,
                                     adaptation_reason |-> reason]),
        writes |-> 0]
  ELSE LET w == AdaptationWork(adaptation_plan, original_session_id, reason, chs, ss, ads)
       IN IF w.raised
          THEN [ret |-> FALSE, exc |-> TRUE, sessions |-> ss, adaptations |-> ads,
                writes |-> w.writes]
          ELSE [ret |-> TRUE, exc |-> FALSE, sessions |-> w.sessions,
                adaptations |-> w.adaptations, writes |-> w.writes]

\* apply_schedule_adaptation: ret, whether the except block ran, the tables
\* as committed, and the ids that adjustment entries moved before the end
apply_schedule_adaptation(adaptation_plan, original_session_id, reason, chs, ss, ads) ==
  IF original_session_id \notin Ids(ss)
  THEN [ret |-> FALSE, exc |-> FALSE, sessions |-> ss, adaptations |-> ads, writes |-> 0]
  ELSE LET w == AdaptationWork(adaptation_plan, original_session_id, reason, chs, ss, ads)
       IN IF w.raised
          THEN [ret |-> FALSE, exc |-> TRUE, sessions |-> ss, adaptations |-> ads,
                writes |-> w.writes]
          ELSE [ret |-> TRUE, exc |-> FALSE, sessions |-> w.sessions,
                adaptations |-> w.adaptations, writes |-> w.writes]

\* the rows a query yields in ORDER BY scheduled_date: every arrangement of
\* the ids in S with ascending scheduled dates (rows with equal dates come in
\* an order the query does not fix)
OrderedByDate(ss, S) ==
  {q \in [1..Cardinality(S) -> S] :
     /\ \A i, j \in DOMAIN q : i # j => q[i] # q[j]
     /\ \A i, j \in DOMAIN q : i < j => DtLeq(ss[q[i]].scheduled_date, ss[q[j]].scheduled_date)}

\* A variant of UpcomingIds that leaves the status filter out.
UpcomingIdsAnyStatus(ss, now, end_date) ==
  {i \in Ids(ss) : /\ DtLeq(now, ss[i].scheduled_date)
                   /\ DtLeq(ss[i].scheduled_date, end_date)}

\* scheduler.py:49-53, the filter of get_current_schedule
UpcomingIds(ss, now, end_date) ==
  {i \in Ids(ss) : /\ DtLeq(now, ss[i].scheduled_date)
                   /\ DtLeq(ss[i].scheduled_date, end_date)
                   /\ ss[i].status \in {"scheduled", "rescheduled"}}

\* scheduler.py:57-66, the projection of one session
ScheduleRow(ss, chs, i) ==
  [id |-> i, chapter_title |-> chs[ss[i].chapter_id].title,
   scheduled_date |-> <<ss[i].scheduled_date[1]>>,
   start_time |-> <<ss[i].scheduled_date[2]>>,
   duration_hours |-> ss[i].duration_hours, status |-> ss[i].status]

\* get_current_schedule: the lists it may return
get_current_schedule(days_ahead, now, ss, chs) ==
  LET end_date == DtAddDays(now, days_ahead)
  IN {[k \in DOMAIN q |-> ScheduleRow(ss, chs, q[k])] :
        q \in OrderedByDate(ss, UpcomingIds(ss, now, end_date))}

\* A variant of RoundTenths that truncates.
TruncTenths(num, den) == (num * 1000) \div den

\* round(num / den * 100, 1) in tenths of a percent, ties to the even digit
RoundTenths(num, den) ==
  LET q == (num * 1000) \div den
      r == (num * 1000) % den
  IN IF 2 * r < den THEN q
     ELSE IF 2 * r > den THEN q + 1
     ELSE IF q % 2 = 0 THEN q ELSE q + 1

\* A variant of NextSessionIds that leaves the status filter out.
NextSessionIdsAnyStatus(ss, now) ==
  LET S == {i \in Ids(ss) : DtLeq(now, ss[i].scheduled_date)}
  IN IF S = {} THEN {0}
     ELSE {i \in S : \A j \in S : DtLeq(ss[i].scheduled_date, ss[j].scheduled_date)}

\* scheduler.py:179-182, the sessions .first() may yield: 0 for None
NextSessionIds(ss, now) ==
  LET S == {i \in Ids(ss) : DtLeq(now, ss[i].scheduled_date)
                            /\ ss[i].status \in {"scheduled", "rescheduled"}}
  IN IF S = {} THEN {0}
     ELSE {i \in S : \A j \in S : DtLeq(ss[i].scheduled_date, ss[j].scheduled_date)}

\* get_study_progress, given the row that the next-session query yields
\* (days_remaining and avg_daily_progress are not modelled)
get_study_progress(now, next_id, ss, chs) ==
  LET total_sessions == Len(ss)
      completed_sessions == Cardinality({i \in Ids(ss) : ss[i].status = "completed"})
      missed_sessions == Cardinality({i \in Ids(ss) : ss[i].status = "missed"})
  IN [total_sessions |-> total_sessions,
      completed_sessions |-> completed_sessions,
      missed_sessions |-> missed_sessions,
      pending_sessions |-> total_sessions - completed_sessions - missed_sessions,
      total_chapters |-> Len(chs),
      completed_chapters |-> Cardinality({c \in Ids(chs) : chs[c].is_completed}),
      completion_rate |-> IF total_sessions > 0
                          THEN RoundTenths(completed_sessions, total_sessions) ELSE 0,
      next_session |-> IF next_id = 0 THEN <<>>
                       ELSE <<[id |-> next_id,
                               chapter_title |-> chs[ss[next_id].chapter_id].title,
                               scheduled_date |-> ss[next_id].scheduled_date]>>]

(* ---------------------------- fallbacks ------------------------------- *)
\* _fallback_subject_breakdown for one subject: its chapters
RECURSIVE fallback_chapters(_)
fallback_chapters(n) ==
  IF n = 0 THEN <<>>
  ELSE Append(fallback_chapters(n - 1), [title |-> <<"Chapter", n>>, estimated_hours |-> 4])

\* A variant of fallback_adaptation that lengthens the session and moves the
\* next session of chapter 1.
fallback_adaptation_catching_up(now) ==
  [reschedule_missed |-> <<[new_date |-> <<now[1] + 1>>, new_time |-> <<14>>,
                            duration_adjustment |-> <<1>>]>>,
   schedule_adjustments |-> <<[original_session |-> <<"Chapter", 1>>,
                               change_type |-> "reschedule",
                               new_date |-> <<now[1] + 2>>, new_time |-> <<14>>]>>]

\* _fallback_adaptation: tomorrow at 14:00, nothing else touched
fallback_adaptation(now) ==
  [reschedule_missed |-> <<[new_date |-> <<now[1] + 1>>, new_time |-> <<14>>,
                            duration_adjustment |-> <<0>>]>>,
   schedule_adjustments |-> <<>>]

(* ------------------------- adaptation answers ------------------------- *)
Block(d, t, adj) == [new_date |-> d, new_time |-> t, duration_adjustment |-> adj]

Adj(title, ctype, d, t) ==
  [original_session |-> title, change_type |-> ctype, new_date |-> d, new_time |-> t]

AdjCh1 == Adj(Ch1, "reschedule", <<2>>, <<14>>)
AdjBadDate == Adj(Ch1, "reschedule", NoText, <<9>>)
AdjExtend == Adj(Ch1, "extend", <<2>>, <<14>>)
AdjUnknown == Adj(NoSuchTitle, "reschedule", NoText, <<9>>)

Plan(block, adjustments) == [reschedule_missed |-> block, schedule_adjustments |-> adjustments]

GoodBlock == <<Block(<<2>>, <<14>>, <<1>>)>>
BadBlock == <<Block(NoText, <<14>>, <<0>>)>>

\* adaptation answers of the oracle: reschedule_missed absent, well-formed
\* with and without a duration_adjustment, and with a new_date that does not
\* parse; adjustment entries that move a session, that have another
\* change_type or an unknown title, and one whose date does not parse after
\* an entry that was applied
AdaptationPlans ==
  { Plan(<<>>, <<>>), Plan(GoodBlock, <<>>), Plan(<<Block(<<2>>, <<14>>, <<>>)>>, <<>>),
    Plan(BadBlock, <<>>),
    Plan(<<>>, <<AdjCh1>>), Plan(GoodBlock, <<AdjCh1>>),
    Plan(<<>>, <<AdjExtend, AdjUnknown>>),
    Plan(GoodBlock, <<AdjCh1, AdjBadDate>>) }

\* f"missed_session: {reason}"
MissedLabel(reason) ==
  CASE reason = "" -> "missed_session: "
    [] reason = "illness" -> "missed_session: illness"

\* reason labels of direct apply_schedule_adaptation calls (models.py:68)
Labels == {"difficulty_adjustment"}

\* what the agent returns to miss_session: the fallback plan, or an answer
RouteAdaptations ==
  {fallback_adaptation(n) : n \in Nows}
  \cup {Plan(BadBlock, <<>>), Plan(<<>>, <<AdjCh1>>)}

(* ------------------------------ routes -------------------------------- *)
\* the record of the latest call: the operation, the session id (0 when it
\* takes none) and the reason or reason label it was given, whether it
\* returned true (found the session, finished without error), whether an
\* exception was raised inside it, and how many session rows it had added or
\* given new values when it ended
Last(op, sid, reason, ret, exc, writes) ==
  [op |-> op, sid |-> sid, reason |-> reason, ret |-> ret, exc |-> exc, writes |-> writes]

\* routes.py add_subjects with one subject whose breakdown is the fallback's
AddSubjects(n) ==
  /\ Len(subjects) + Len(study_plans) + Len(sessions) + Len(adaptations) < MaxRows
  /\ LET sid == Len(subjects) + 1
         new == fallback_chapters(n)
     IN /\ subjects' = Append(subjects, [name |-> <<"Subject", sid>>, total_chapters |-> n])
        /\ chapters' = chapters \o
              [j \in 1..n |-> [subject_id |-> sid, title |-> new[j].title,
                               estimated_hours |-> new[j].estimated_hours,
                               is_completed |-> FALSE]]
  /\ last' = Last("add_subjects", 0, NoReason, TRUE, FALSE, 0)
  /\ UNCHANGED <<sessions, study_plans, adaptations>>

\* routes.py create_schedule
CreateSchedule(ai_schedule) ==
  /\ Len(subjects) + Len(study_plans) + Len(sessions) + Len(adaptations) < MaxRows
  /\ study_plans' = Append(study_plans, [name |-> "Study Plan", is_active |-> TRUE])
  /\ IF chapters = <<>>
     THEN /\ last' = Last("create_schedule", 0, NoReason, FALSE, FALSE, 0)
          /\ UNCHANGED sessions
     ELSE LET r == create_sessions_from_ai_schedule(ai_schedule, chapters, sessions)
          IN /\ Len(subjects) + Len(study_plans') + Len(r.pending) + Len(adaptations) <= MaxRows
             /\ sessions' = r.committed
             /\ last' = Last("create_schedule", 0, NoReason, ~r.raised, r.raised,
                              Len(r.pending) - Len(sessions))
  /\ UNCHANGED <<subjects, chapters, adaptations>>

\* routes.py complete_session: mark_session_completed, then 404 when the
\* session is not found
CompleteSession(session_id, notes) ==
  LET r == mark_session_completed(session_id, notes, chapters, sessions)
  IN /\ sessions' = r.sessions
     /\ chapters' = r.chapters
     /\ last' = Last("complete_session", session_id, NoReason, r.ret, FALSE, IF r.ret THEN 1 ELSE 0)
     /\ UNCHANGED <<subjects, study_plans, adaptations>>

\* a call of ScheduleManager.mark_session_missed
MarkSessionMissed(session_id, reason) ==
  LET r == mark_session_missed(session_id, reason, sessions)
  IN /\ sessions' = r.sessions
     /\ last' = Last("mark_session_missed", session_id, reason, r.ret, FALSE,
                     IF r.sessions # sessions THEN 1 ELSE 0)
     /\ UNCHANGED <<subjects, chapters, study_plans, adaptations>>

\* A variant of ApplyScheduleAdaptation that keeps one adaptation record per
\* original session, the latest.
ApplyScheduleAdaptationLatestOnly(adaptation_plan, session_id, reason) ==
  LET r == apply_schedule_adaptation(adaptation_plan, session_id, reason,
                                     chapters, sessions, adaptations)
  IN /\ Len(subjects) + Len(study_plans) + Len(r.sessions) + Len(r.adaptations) <= MaxRows
     /\ sessions' = r.sessions
     /\ adaptations' =
           IF r.ret
           THEN Append(SelectSeq(adaptations, LAMBDA a : a.original_session_id # session_id),
                       [original_session_id |-> session_id, adaptation_reason |-> reason])
           ELSE adaptations
     /\ last' = Last("apply_schedule_adaptation", session_id, reason, r.ret, r.exc, r.writes)
     /\ UNCHANGED <<subjects, chapters, study_plans>>

\* a call of ScheduleManager.apply_schedule_adaptation
ApplyScheduleAdaptation(adaptation_plan, session_id, reason) ==
  LET r == apply_schedule_adaptation(adaptation_plan, session_id, reason,
                                     chapters, sessions, adaptations)
  IN /\ Len(subjects) + Len(study_plans) + Len(r.sessions) + Len(r.adaptations) <= MaxRows
     /\ sessions' = r.sessions
     /\ adaptations' = r.adaptations
     /\ last' = Last("apply_schedule_adaptation", session_id, reason, r.ret, r.exc, r.writes)
     /\ UNCHANGED <<subjects, chapters, study_plans>>

\* routes.py miss_session: mark missed (first commit), then the adaptation
\* the agent returns, applied under the label "missed_session: <reason>"
MissSession(session_id, reason, adaptation) ==
  LET m == mark_session_missed(session_id, reason, sessions)
      a == apply_schedule_adaptation(adaptation, session_id, MissedLabel(reason),
                                     chapters, m.sessions, adaptations)
  IN /\ Len(subjects) + Len(study_plans) + Len(a.sessions) + Len(a.adaptations) <= MaxRows
     /\ sessions' = IF m.ret THEN a.sessions ELSE sessions
     /\ adaptations' = IF m.ret THEN a.adaptations ELSE adaptations
     /\ last' = Last("miss_session", session_id, reason, m.ret, a.exc, a.writes)
     /\ UNCHANGED <<subjects, chapters, study_plans>>

\* a call of ScheduleManager.get_current_schedule: whatever the horizon and
\* the reading of the clock, it returns a list and writes nothing
GetCurrentSchedule ==
  /\ \A days_ahead \in Horizons, now \in Nows :
        get_current_schedule(days_ahead, now, sessions, chapters) # {}
  /\ UNCHANGED vars

\* a call of ScheduleManager.get_study_progress: whatever the reading of the
\* clock, it returns a report and writes nothing
GetStudyProgress ==
  /\ \A now \in Nows : \A nx \in NextSessionIds(sessions, now) :
        get_study_progress(now, nx, sessions, chapters).total_sessions = Len(sessions)
  /\ UNCHANGED vars

\* where a reset may fail: 0 for nowhere, 1..5 for the bulk delete of that
\* position (a referenced row under an enforced foreign key, a lost
\* connection, a locked database), 6 for the commit; a failure after three
\* deletes stands for them, as the except block does not tell them apart
ResetFailures == {0, 4}

\* the tables as the statements of reset_schedule before the failing one
\* leave them inside the transaction
ResetPending(fails_at, ss, chs, subs, plans, ads) ==
  LET done(k) == fails_at = 0 \/ fails_at > k
  IN [sessions |-> IF done(1) THEN <<>> ELSE ss,
      chapters |-> IF done(2) THEN <<>> ELSE chs,
      subjects |-> IF done(3) THEN <<>> ELSE subs,
      study_plans |-> IF done(4) THEN <<>> ELSE plans,
      adaptations |-> IF done(5) THEN <<>> ELSE ads]

\* A variant of reset_schedule without the delete of the adaptation records.
reset_schedule_keeping_adaptations(fails_at, ss, chs, subs, plans, ads) ==
  LET pending == ResetPending(fails_at, ss, chs, subs, plans, ads)
  IN [ret |-> fails_at = 0, exc |-> fails_at # 0,
      committed |-> IF fails_at = 0 THEN [pending EXCEPT !.adaptations = ads]
                    ELSE [sessions |-> ss, chapters |-> chs, subjects |-> subs,
                          study_plans |-> plans, adaptations |-> ads],
      deleted |-> Len(ss) - Len(pending.sessions)]

\* A variant of reset_schedule whose except block commits.
reset_schedule_no_rollback(fails_at, ss, chs, subs, plans, ads) ==
  [ret |-> fails_at = 0, exc |-> fails_at # 0,
   committed |-> ResetPending(fails_at, ss, chs, subs, plans, ads),
   deleted |-> Len(ss) - Len(ResetPending(fails_at, ss, chs, subs, plans, ads).sessions)]

\* routes.py reset_schedule: five bulk deletes and the commit in one
\* transaction, rolled back by the except block; whether it finished, the
\* tables as committed, the session rows deleted when it ended
reset_schedule(fails_at, ss, chs, subs, plans, ads) ==
  LET pending == ResetPending(fails_at, ss, chs, subs, plans, ads)
  IN [ret |-> fails_at = 0, exc |-> fails_at # 0,
      committed |-> IF fails_at = 0 THEN pending
                    ELSE [sessions |-> ss, chapters |-> chs, subjects |-> subs,
                          study_plans |-> plans, adaptations |-> ads],
      deleted |-> Len(ss) - Len(pending.sessions)]

\* routes.py reset_schedule
ResetSchedule(fails_at) ==
  LET r == reset_schedule(fails_at, sessions, chapters, subjects, study_plans, adaptations)
  IN /\ sessions' = r.committed.sessions
     /\ chapters' = r.committed.chapters
     /\ subjects' = r.committed.subjects
     /\ study_plans' = r.committed.study_plans
     /\ adaptations' = r.committed.adaptations
     /\ last' = Last("reset_schedule", 0, NoReason, r.ret, r.exc, r.deleted)

\* session ids a request may name: those in the store and the next one, which
\* no session has
SessionIds == 1..(Len(sessions) + 1)

Next ==
  \/ \E n \in ChapterCounts : AddSubjects(n)
  \/ \E a \in AISchedules : CreateSchedule(a)
  \/ \E i \in SessionIds : CompleteSession(i, "")
  \/ \E i \in SessionIds, r \in Reasons : MarkSessionMissed(i, r)
  \/ \E i \in SessionIds, p \in AdaptationPlans, l \in Labels : ApplyScheduleAdaptation(p, i, l)
  \/ \E i \in SessionIds, r \in Reasons, p \in RouteAdaptations : MissSession(i, r, p)
  \/ GetCurrentSchedule
  \/ GetStudyProgress
  \/ \E f \in ResetFailures : ResetSchedule(f)

Spec == Init /\ [][Next]_vars

(* ------------------------------ the agent ----------------------------- *)
\* The AIStudyAgent calls, on their own: the store is not touched, and `last`
\* holds the frame of the one call under way or finished: its operation and
\* arguments, whether it raised, how many oracle requests it made, what it
\* returned, and, inside _fallback_schedule's while loop, the loop's variables.

\* chapters a create-schedule request may pass, and the last day a plan may name
MaxChapters == 3
MaxDays == 3

\* estimated_hours of a chapter and daily_hours of a plan, in half hours
ChapterHours == {2, 4, 6}
DailyHours == {5, 8}

\* chapters_data of create_schedule: titles by position, one subject
RECURSIVE ChapterLists(_)
ChapterLists(n) ==
  IF n = 0 THEN {<<>>}
  ELSE LET shorter == ChapterLists(n - 1)
       IN shorter \cup
          {Append(q, [title |-> <<"Chapter", Len(q) + 1>>, subject_name |-> <<"Subject", 1>>,
                      estimated_hours |-> h]) :
             q \in {x \in shorter : Len(x) = n - 1}, h \in ChapterHours}

\* plan_config of create_schedule: the plan starts on day 1; end_date 0 is a
\* day before the start
PlanConfigs ==
  {[start_date |-> 1, end_date |-> e, daily_hours |-> d] : e \in 0..MaxDays, d \in DailyHours}

\* current_date += timedelta(days=1)
NextDay(d) == d + 1

\* list.remove(x): the list without its first element equal to x
RemoveFirst(q, x) ==
  LET k == Min({i \in DOMAIN q : q[i] = x})
  IN SubSeq(q, 1, k - 1) \o SubSeq(q, k + 1, Len(q))

\* A variant of FillDay that ends the day at the first chapter that does not
\* fit.
RECURSIVE FillDayUntilMisfit(_, _, _, _)
FillDayUntilMisfit(snapshot, chapters_queue, remaining_hours, daily_sessions) ==
  IF snapshot = <<>> \/ remaining_hours < Head(snapshot).estimated_hours
  THEN [chapters_queue |-> chapters_queue, daily_sessions |-> daily_sessions]
  ELSE LET chapter == Head(snapshot)
       IN FillDayUntilMisfit(Tail(snapshot), RemoveFirst(chapters_queue, chapter),
                             remaining_hours - chapter.estimated_hours,
                             Append(daily_sessions,
                                    Desc(chapter.title, <<9>>, <<chapter.estimated_hours>>)))

\* A variant of FillDay that plans every chapter that fits the day's full
\* budget, whatever the day already holds.
FillDayNoBudget(snapshot, chapters_queue, remaining_hours, daily_sessions) ==
  LET fits == SelectSeq(snapshot, LAMBDA c : remaining_hours >= c.estimated_hours)
  IN [chapters_queue |-> SelectSeq(snapshot, LAMBDA c : remaining_hours < c.estimated_hours),
      daily_sessions |-> [k \in DOMAIN fits |->
                            Desc(fits[k].title, <<9>>, <<fits[k].estimated_hours>>)]]

\* ai_agent.py:354-366, the for loop over a copy of the queue: a chapter that
\* fits in the hours left is planned at 09:00 and removed from the queue
RECURSIVE FillDay(_, _, _, _)
FillDay(snapshot, chapters_queue, remaining_hours, daily_sessions) ==
  IF snapshot = <<>>
  THEN [chapters_queue |-> chapters_queue, daily_sessions |-> daily_sessions]
  ELSE LET chapter == Head(snapshot)
       IN IF remaining_hours >= chapter.estimated_hours
          THEN FillDay(Tail(snapshot), RemoveFirst(chapters_queue, chapter),
                       remaining_hours - chapter.estimated_hours,
                       Append(daily_sessions,
                              Desc(chapter.title, <<9>>, <<chapter.estimated_hours>>)))
          ELSE FillDay(Tail(snapshot), chapters_queue, remaining_hours, daily_sessions)

\* the variables of _fallback_schedule's while loop
LoopVars(chapters_queue, current_date, schedule) ==
  [chapters_queue |-> chapters_queue, current_date |-> current_date, schedule |-> schedule]

\* A variant of LoopContinues that stops before the end date.
LoopStopsBeforeEnd(w, plan_config) ==
  w.chapters_queue # <<>> /\ w.current_date < plan_config.end_date

\* ai_agent.py:350, the while condition
LoopContinues(w, plan_config) ==
  w.chapters_queue # <<>> /\ w.current_date <= plan_config.end_date

\* ai_agent.py:351-374, one pass of the while loop
LoopBody(w, plan_config) ==
  LET d == FillDay(w.chapters_queue, w.chapters_queue, plan_config.daily_hours, <<>>)
  IN LoopVars(d.chapters_queue, NextDay(w.current_date),
              IF d.daily_sessions # <<>>
              THEN Append(w.schedule, Day(<<w.current_date>>, d.daily_sessions))
              ELSE w.schedule)

RECURSIVE RunLoop(_, _)
RunLoop(w, plan_config) ==
  IF LoopContinues(w, plan_config) THEN RunLoop(LoopBody(w, plan_config), plan_config)
  ELSE w

\* _fallback_schedule: the "schedule" list it returns
fallback_schedule(chapters_data, plan_config) ==
  RunLoop(LoopVars(chapters_data, plan_config.start_date, <<>>), plan_config).schedule

\* subjects_data of add_subjects
SubjectsData ==
  {<<>>} \cup {<<[name |-> <<"Subject", 1>>, total_chapters |-> n]>> : n \in {0, 2}}
         \cup {<<[name |-> <<"Subject", 1>>, total_chapters |-> 1],
                 [name |-> <<"Subject", 2>>, total_chapters |-> 2]>>}

\* _fallback_subject_breakdown: the "breakdown" list it returns
fallback_subject_breakdown(subjects_data) ==
  [k \in DOMAIN subjects_data |->
     [subject_name |-> subjects_data[k].name,
      chapters |-> fallback_chapters(subjects_data[k].total_chapters)]]

\* missed_session_data of miss_session: the chapter and the start time
MissedSessions == {[chapter_title |-> Ch1, start_time |-> <<t>>] : t \in {9, 14}}

\* what a request to the oracle may come to: the request fails (transport
\* error, timeout, status that is not 2xx), or it yields a response whose
\* content is missing, is JSON text, holds JSON text between its first "{"
\* and last "}", holds text that is not JSON there, or holds no braces
OracleOutcomes(answers) ==
  {[request |-> r, kind |-> "none", value |-> <<>>] :
      r \in {"transport_error", "timeout", "http_error"}}
  \cup {[request |-> "ok", kind |-> k, value |-> <<>>] : k \in {"no_content", "garbled", "plain"}}
  \cup {[request |-> "ok", kind |-> k, value |-> <<v>>] : k \in {"json", "embedded"}, v \in answers}

\* A variant of OracleCall in which a failed parse of the extracted text
\* leaves the call.
OracleCallRaising(outcome, fallback) ==
  IF outcome.request = "ok" /\ outcome.kind \in {"json", "embedded"}
  THEN [raised |-> FALSE, requests |-> 1, out |-> outcome.value[1]]
  ELSE IF outcome.request = "ok" /\ outcome.kind = "garbled"
       THEN [raised |-> TRUE, requests |-> 1, out |-> <<>>]
       ELSE [raised |-> FALSE, requests |-> 1, out |-> fallback]

\* the try block shared by break_down_subjects, create_study_schedule and
\* adapt_schedule_for_missed_session: one request; json.loads of the content,
\* then of the text the regular expression extracts; every exception ends in
\* the fallback generator's output
OracleCall(outcome, fallback) ==
  IF outcome.request # "ok"
  THEN [raised |-> FALSE, requests |-> 1, out |-> fallback]
  ELSE CASE outcome.kind = "json" -> [raised |-> FALSE, requests |-> 1, out |-> outcome.value[1]]
         [] outcome.kind = "embedded" ->
              [raised |-> FALSE, requests |-> 1, out |-> outcome.value[1]]
         [] OTHER -> [raised |-> FALSE, requests |-> 1, out |-> fallback]

break_down_subjects(subjects_data, outcome) ==
  OracleCall(outcome, fallback_subject_breakdown(subjects_data))

create_study_schedule(chapters_data, plan_config, outcome) ==
  OracleCall(outcome, fallback_schedule(chapters_data, plan_config))

adapt_schedule_for_missed_session(missed_session, now, outcome) ==
  OracleCall(outcome, fallback_adaptation(now))

\* the frame of an agent call
Frame(op, args, outcome, pc, w, raised, requests, out) ==
  [op |-> op, args |-> args, outcome |-> outcome, pc |-> pc, w |-> w,
   raised |-> raised, requests |-> requests, out |-> out]

NoOutcome == [request |-> "none", kind |-> "none", value |-> <<>>]

\* no agent call has been made yet
AgentIdle == last.op = "init"

\* _fallback_schedule is inside its while loop
InLoop == last.op = "_fallback_schedule" /\ last.pc = "loop"

\* _fallback_schedule is entered
FallbackScheduleCall(chapters_data, plan_config) ==
  /\ AgentIdle
  /\ last' = Frame("_fallback_schedule",
                   [chapters_data |-> chapters_data, plan_config |-> plan_config],
                   NoOutcome, "loop",
                   LoopVars(chapters_data, plan_config.start_date, <<>>), FALSE, 0, <<>>)
  /\ UNCHANGED <<subjects, chapters, sessions, study_plans, adaptations>>

\* A variant of FallbackScheduleDay whose pass leaves current_date as it was.
FallbackScheduleDaySameDate ==
  /\ InLoop
  /\ LoopContinues(last.w, last.args.plan_config)
  /\ last' = [last EXCEPT !.w = [LoopBody(last.w, last.args.plan_config)
                                   EXCEPT !.current_date = last.w.current_date]]
  /\ UNCHANGED <<subjects, chapters, sessions, study_plans, adaptations>>

\* one pass of its while loop
FallbackScheduleDay ==
  /\ InLoop
  /\ LoopContinues(last.w, last.args.plan_config)
  /\ last' = [last EXCEPT !.w = LoopBody(last.w, last.args.plan_config)]
  /\ UNCHANGED <<subjects, chapters, sessions, study_plans, adaptations>>

\* the while condition fails and the schedule is returned
FallbackScheduleReturn ==
  /\ InLoop
  /\ ~LoopContinues(last.w, last.args.plan_config)
  /\ last' = [last EXCEPT !.pc = "done", !.out = last.w.schedule]
  /\ UNCHANGED <<subjects, chapters, sessions, study_plans, adaptations>>

\* a call of _fallback_subject_breakdown
FallbackSubjectBreakdown(subjects_data) ==
  /\ AgentIdle
  /\ last' = Frame("_fallback_subject_breakdown", [subjects_data |-> subjects_data],
                   NoOutcome, "done", <<>>, FALSE, 0,
                   fallback_subject_breakdown(subjects_data))
  /\ UNCHANGED <<subjects, chapters, sessions, study_plans, adaptations>>

\* a call of _fallback_adaptation
FallbackAdaptation(missed_session, now) ==
  /\ AgentIdle
  /\ last' = Frame("_fallback_adaptation", [missed_session |-> missed_session, now |-> now],
                   NoOutcome, "done", <<>>, FALSE, 0, fallback_adaptation(now))
  /\ UNCHANGED <<subjects, chapters, sessions, study_plans, adaptations>>

\* a call of break_down_subjects
BreakDownSubjects(subjects_data, outcome) ==
  /\ AgentIdle
  /\ LET r == break_down_subjects(subjects_data, outcome)
     IN last' = Frame("break_down_subjects", [subjects_data |-> subjects_data],
                      outcome, "done", <<>>, r.raised, r.requests, r.out)
  /\ UNCHANGED <<subjects, chapters, sessions, study_plans, adaptations>>

\* a call of create_study_schedule
CreateStudySchedule(chapters_data, plan_config, outcome) ==
  /\ AgentIdle
  /\ LET r == create_study_schedule(chapters_data, plan_config, outcome)
     IN last' = Frame("create_study_schedule",
                      [chapters_data |-> chapters_data, plan_config |-> plan_config],
                      outcome, "done", <<>>, r.raised, r.requests, r.out)
  /\ UNCHANGED <<subjects, chapters, sessions, study_plans, adaptations>>

\* a call of adapt_schedule_for_missed_session
AdaptScheduleForMissedSession(missed_session, now, outcome) ==
  /\ AgentIdle
  /\ LET r == adapt_schedule_for_missed_session(missed_session, now, outcome)
     IN last' = Frame("adapt_schedule_for_missed_session",
                      [missed_session |-> missed_session, now |-> now],
                      outcome, "done", <<>>, r.raised, r.requests, r.out)
  /\ UNCHANGED <<subjects, chapters, sessions, study_plans, adaptations>>

\* answers the oracle may give to each of the three calls
BreakdownAnswers == {<<[subject_name |-> <<"Subject", 1>>, chapters |-> <<>>]>>}
ScheduleAnswers == {<<Day(<<1>>, <<DescCh1>>)>>}
AdaptationAnswers == {Plan(GoodBlock, <<>>)}

AgentNext ==
  \/ \E c \in ChapterLists(MaxChapters), g \in PlanConfigs : FallbackScheduleCall(c, g)
  \/ FallbackScheduleDay
  \/ FallbackScheduleReturn
  \/ \E sd \in SubjectsData : FallbackSubjectBreakdown(sd)
  \/ \E m \in MissedSessions, n \in Nows : FallbackAdaptation(m, n)
  \/ \E sd \in SubjectsData, o \in OracleOutcomes(BreakdownAnswers) : BreakDownSubjects(sd, o)
  \/ \E c \in ChapterLists(MaxChapters), g \in PlanConfigs,
        o \in OracleOutcomes(ScheduleAnswers) : CreateStudySchedule(c, g, o)
  \/ \E m \in MissedSessions, n \in Nows, o \in OracleOutcomes(AdaptationAnswers) :
        AdaptScheduleForMissedSession(m, n, o)

AgentSpec == Init /\ [][AgentNext]_vars

\* a call that has been entered runs on: the interpreter executes the next
\* pass of the loop, and the return that follows it
AgentFairSpec ==
  AgentSpec /\ WF_vars(FallbackScheduleDay) /\ WF_vars(FallbackScheduleReturn)

(* ----------------------- miss-session requests ------------------------ *)
\* Two miss_session requests served at once, on a store that an add-subjects
\* and a create-schedule request have filled. A request commits twice, in
\* mark_session_missed and in apply_schedule_adaptation, and asks the agent in
\* between; the steps of the two requests interleave. `last` holds the frame
\* of each request: where it is, its session id and reason, the plan the
\* agent returned, and what apply_schedule_adaptation returned.

Requests == {1, 2}

\* the stores after add_subjects with one subject of two chapters and a
\* create_schedule that planned at least one session
SeededSessions ==
  LET chs == [j \in 1..2 |-> [subject_id |-> 1, title |-> fallback_chapters(2)[j].title,
                              estimated_hours |-> fallback_chapters(2)[j].estimated_hours,
                              is_completed |-> FALSE]]
  IN {create_sessions_from_ai_schedule(a, chs, <<>>).committed : a \in AISchedules} \ {<<>>}

NoPlan == <<>>

RequestFrame(pc, sid, reason, plan, rescheduled) ==
  [pc |-> pc, sid |-> sid, reason |-> reason, plan |-> plan, rescheduled |-> rescheduled]

MissInit ==
  /\ subjects = <<[name |-> <<"Subject", 1>>, total_chapters |-> 2]>>
  /\ chapters = [j \in 1..2 |-> [subject_id |-> 1, title |-> fallback_chapters(2)[j].title,
                                 estimated_hours |-> fallback_chapters(2)[j].estimated_hours,
                                 is_completed |-> FALSE]]
  /\ study_plans = <<[name |-> "Study Plan", is_active |-> TRUE]>>
  /\ sessions \in SeededSessions
  /\ adaptations = <<>>
  /\ last = [op |-> "miss_session",
             req |-> [r \in Requests |-> RequestFrame("idle", 0, NoReason, NoPlan, FALSE)]]

\* A variant of MissMark that leaves the marking to the commit of the
\* adaptation.
MissMarkUncommitted(r, session_id, reason) ==
  /\ last.req[r].pc = "idle"
  /\ last' = [last EXCEPT !.req[r] =
                RequestFrame(IF session_id \in Ids(sessions) THEN "marked" ELSE "not_found",
                             session_id, reason, NoPlan, FALSE)]
  /\ UNCHANGED <<subjects, chapters, sessions, study_plans, adaptations>>

\* routes.py:297-317: the request marks the session missed and commits, or
\* finds no such session and answers 404
MissMark(r, session_id, reason) ==
  /\ last.req[r].pc = "idle"
  /\ LET m == mark_session_missed(session_id, reason, sessions)
     IN /\ sessions' = m.sessions
        /\ last' = [last EXCEPT !.req[r] =
                      RequestFrame(IF m.ret THEN "marked" ELSE "not_found",
                                   session_id, reason, NoPlan, FALSE)]
  /\ UNCHANGED <<subjects, chapters, study_plans, adaptations>>

\* routes.py:320-336: the session is read again and the agent returns a plan
MissAdapt(r, adaptation) ==
  /\ last.req[r].pc = "marked"
  /\ last.req[r].sid \in Ids(sessions)
  /\ last' = [last EXCEPT !.req[r].pc = "planned", !.req[r].plan = <<adaptation>>]
  /\ UNCHANGED <<subjects, chapters, sessions, study_plans, adaptations>>

\* routes.py:338-340: apply_schedule_adaptation, the second commit
MissApply(r) ==
  /\ last.req[r].pc = "planned"
  /\ LET a == apply_schedule_adaptation(last.req[r].plan[1], last.req[r].sid,
                                        MissedLabel(last.req[r].reason),
                                        chapters, sessions, adaptations)
     IN /\ sessions' = a.sessions
        /\ adaptations' = a.adaptations
        /\ last' = [last EXCEPT !.req[r].pc = "done", !.req[r].rescheduled = a.ret]
  /\ UNCHANGED <<subjects, chapters, study_plans>>

MissNext ==
  \/ \E r \in Requests, i \in SessionIds, reason \in Reasons : MissMark(r, i, reason)
  \/ \E r \in Requests, p \in RouteAdaptations : MissAdapt(r, p)
  \/ \E r \in Requests : MissApply(r)

MissSpec == MissInit /\ [][MissNext]_vars

(* ------------------------------ properties ---------------------------- *)
Open == {"scheduled", "rescheduled"}
Closed == {"completed", "missed"}

\* the five tables
Store == <<subjects, chapters, sessions, study_plans, adaptations>>

AdaptationRecord(i, l) == [original_session_id |-> i, adaptation_reason |-> l]

Abs(x) == IF x < 0 THEN -x ELSE x

\* C1: in every step, a session that is in the store before and after the step
\* keeps its status, or goes from scheduled or rescheduled to completed or
\* missed, or from scheduled to rescheduled; a session whose status is
\* completed or missed never changes status again.
C1_StatusTransitions ==
  [][\A i \in Ids(sessions) \cap Ids(sessions') :
        LET a == sessions[i].status
            b == sessions'[i].status
        IN a # b => \/ (a \in Open /\ b \in Closed)
                    \/ (a = "scheduled" /\ b = "rescheduled")]_vars

\* C2: a call of apply_schedule_adaptation that returns true appends exactly
\* one adaptation record, carrying the session id and the reason label the
\* call was given; a call that returns false leaves the adaptation records as
\* they were. Both the direct calls and the call made by miss_session (label
\* "missed_session: <reason>", made when the session was found, true unless
\* an exception was raised) are covered.
C2_OneRecordPerSuccess ==
  [][/\ last'.op = "apply_schedule_adaptation" =>
          adaptations' = IF last'.ret
                         THEN Append(adaptations, AdaptationRecord(last'.sid, last'.reason))
                         ELSE adaptations
     /\ last'.op = "miss_session" =>
          adaptations' = IF last'.ret /\ ~last'.exc
                         THEN Append(adaptations,
                                     AdaptationRecord(last'.sid, MissedLabel(last'.reason)))
                         ELSE adaptations]_vars

\* a successful direct call has just appended a record with its label
C2_Witness ==
  /\ last.op = "apply_schedule_adaptation" /\ last.ret
  /\ adaptations # <<>>
  /\ adaptations # <<>>
  /\ adaptations[Len(adaptations)] = AdaptationRecord(last.sid, "difficulty_adjustment")

\* C3: when apply_schedule_adaptation succeeds for an original session whose
\* status is missed, that session is still in the store afterwards, unchanged
\* and with status missed, whatever the plan holds; every session that has
\* status rescheduled after the call and did not have it before is another
\* session.
C3_OriginalStaysMissed ==
  [][/\ /\ last'.op = "apply_schedule_adaptation" /\ last'.ret
        /\ last'.sid \in Ids(sessions)
        /\ sessions[last'.sid].status = "missed"
        => /\ last'.sid \in Ids(sessions')
           /\ sessions'[last'.sid] = sessions[last'.sid]
           /\ \A j \in Ids(sessions') :
                 /\ sessions'[j].status = "rescheduled"
                 /\ (j \in Ids(sessions) => sessions[j].status # "rescheduled")
                 => j # last'.sid
     /\ last'.op = "miss_session" /\ last'.ret /\ ~last'.exc
        => /\ last'.sid \in Ids(sessions')
           /\ sessions'[last'.sid].status = "missed"
           /\ \A j \in Ids(sessions') :
                 /\ sessions'[j].status = "rescheduled"
                 /\ (j \in Ids(sessions) => sessions[j].status # "rescheduled")
                 => j # last'.sid]_vars

\* an adjustment entry naming the missed original's own chapter was applied:
\* it moved another session of that chapter, the original is still missed
C3_Witness ==
  /\ last.op = "apply_schedule_adaptation" /\ last.ret /\ last.writes > 0
  /\ \E i, j \in Ids(sessions) :
        /\ i # j
        /\ sessions[i].status = "missed"
        /\ sessions[j].status = "rescheduled"
        /\ sessions[j].chapter_id = sessions[i].chapter_id
        /\ chapters[sessions[i].chapter_id].title = Ch1
        /\ adaptations # <<>>
        /\ adaptations[Len(adaptations)].original_session_id = i
        /\ last.sid = i

\* C4: when an exception is raised inside apply_schedule_adaptation after the
\* original session was found, the call returns false and all five tables are
\* as before the call; in miss_session the tables are as the preceding
\* mark_session_missed left them. A reschedule block whose date does not parse
\* is such an exception.
C4_ExceptionRollsBack ==
  [][/\ last'.op = "apply_schedule_adaptation" =>
          /\ last'.exc => ~last'.ret /\ UNCHANGED Store
          /\ \A p \in AdaptationPlans :
                /\ p.reschedule_missed # <<>>
                /\ p.reschedule_missed[1].new_date = NoText
                /\ last'.sid \in Ids(sessions)
                /\ ApplyScheduleAdaptation(p, last'.sid, last'.reason)
                => last'.exc /\ ~last'.ret /\ UNCHANGED Store
     /\ last'.op = "miss_session" /\ last'.exc =>
          /\ sessions' = mark_session_missed(last'.sid, last'.reason, sessions).sessions
          /\ UNCHANGED <<subjects, chapters, study_plans, adaptations>>]_vars

\* a call failed on a later adjustment entry after it had added the new
\* session and moved another one; the store holds neither
C4_Witness ==
  /\ last.op = "apply_schedule_adaptation" /\ last.exc /\ ~last.ret
  /\ last.writes >= 2
  /\ adaptations = <<>>
  /\ \A i \in Ids(sessions) : sessions[i].status # "rescheduled"

\* C5: mark_session_missed, mark_session_completed and
\* apply_schedule_adaptation called with an id that no session has return false
\* and leave all five tables unchanged, and so does miss_session for such an id.
C5_UnknownIdChangesNothing ==
  [][/\ last'.op \in {"mark_session_missed", "complete_session",
                      "apply_schedule_adaptation", "miss_session"}
     /\ last'.sid \notin Ids(sessions)
     => ~last'.ret /\ UNCHANGED Store]_vars

\* apply_schedule_adaptation has just been called with an unknown id while the
\* store holds sessions
C5_Witness ==
  /\ last.op = "apply_schedule_adaptation" /\ ~last.ret /\ ~last.exc
  /\ sessions # <<>>
  /\ last.sid \notin Ids(sessions)

\* the descriptors of a schedule answer, as <<day, position>>, whose title
\* some chapter has
Resolvable(a, chs) ==
  {dk \in UNION {{<<d, k>> : k \in DOMAIN a[d].sessions} : d \in DOMAIN a} :
      \E c \in Ids(chs) : chs[c].title = a[dk[1]].sessions[dk[2]].chapter_title}

\* C6: a schedule creation in which create_sessions_from_ai_schedule raises
\* leaves the sessions table as it was; after any schedule creation the table
\* is the old one, or the old one followed by one session for every resolvable
\* descriptor of the batch.
C6_BatchAllOrNone ==
  [][last'.op = "create_schedule" =>
        \A a \in AISchedules :
           CreateSchedule(a) =>
              /\ last'.exc => sessions' = sessions
              /\ SubSeq(sessions', 1, Len(sessions)) = sessions
              /\ \/ sessions' = sessions
                 \/ Len(sessions') - Len(sessions) = Cardinality(Resolvable(a, chapters))]_vars

\* a creation failed after it had built a session; the store holds none
C6_Witness ==
  /\ last.op = "create_schedule" /\ last.exc
  /\ last.writes >= 1
  /\ sessions = <<>>
  /\ chapters # <<>>

\* the descriptors of a schedule answer in the order the code visits them,
\* each with the date of its day
RECURSIVE FlatDescs(_)
FlatDescs(a) ==
  IF a = <<>> THEN <<>>
  ELSE [k \in DOMAIN Head(a).sessions |->
          [date |-> Head(a).date, desc |-> Head(a).sessions[k]]] \o FlatDescs(Tail(a))

\* every day's date parses, and every resolvable descriptor has a start_time
\* that parses and a duration_hours
WellFormed(a, chs) ==
  /\ \A d \in DOMAIN a : a[d].date # NoText
  /\ \A dk \in Resolvable(a, chs) :
        /\ a[dk[1]].sessions[dk[2]].start_time # NoText
        /\ a[dk[1]].sessions[dk[2]].duration_hours # <<>>

\* one scheduled session per resolvable descriptor, in order, for the chapter
\* with the least id among those with the title
ExpectedSessions(a, chs) ==
  LET keep == SelectSeq(FlatDescs(a),
                        LAMBDA x : \E c \in Ids(chs) : chs[c].title = x.desc.chapter_title)
  IN [k \in DOMAIN keep |->
        [chapter_id |-> CHOOSE c \in Ids(chs) :
                           /\ chs[c].title = keep[k].desc.chapter_title
                           /\ \A c2 \in 1..(c - 1) : chs[c2].title # keep[k].desc.chapter_title,
         scheduled_date |-> <<keep[k].date[1], keep[k].desc.start_time[1]>>,
         duration_hours |-> keep[k].desc.duration_hours[1],
         status |-> "scheduled",
         notes |-> NoNotes]]

\* C7: for an answer whose days and resolvable descriptors are well-formed,
\* create_sessions_from_ai_schedule raises nothing and appends exactly one
\* session, with status scheduled and the id of the first chapter with that
\* title, for each descriptor whose title some chapter has, and none for the
\* other descriptors; the sessions of the returned list are exactly those.
C7_OneSessionPerResolvable ==
  [][last'.op = "create_schedule" =>
        \A a \in AISchedules :
           CreateSchedule(a) /\ chapters # <<>> /\ WellFormed(a, chapters) =>
              /\ last'.ret /\ ~last'.exc
              /\ sessions' = sessions \o ExpectedSessions(a, chapters)
              /\ create_sessions_from_ai_schedule(a, chapters, sessions).returned
                   = Ids(sessions') \ Ids(sessions)]_vars

\* two chapters carry each title, and an answer with an unknown title and
\* "Chapter 2" has given one session, of the first "Chapter 2"
C7_Witness ==
  /\ last.op = "create_schedule" /\ last.ret /\ last.writes = 1
  /\ Cardinality({c \in Ids(chapters) : chapters[c].title = Ch2}) > 1
  /\ Len(sessions) = 1
  /\ chapters[sessions[1].chapter_id].title = Ch2
  /\ sessions[1].status = "scheduled"

\* C8: a successful mark_session_missed leaves the session missed and adds no
\* adaptation record; called on a session that a call with the same reason
\* has already marked, it changes nothing, so two calls leave the store as one
\* does.
C8_MarkMissedIdempotent ==
  [][last'.op = "mark_session_missed" /\ last'.ret =>
        /\ last'.sid \in Ids(sessions')
        /\ sessions'[last'.sid].status = "missed"
        /\ sessions'[last'.sid].notes = MissedNote(last'.reason)
        /\ adaptations' = adaptations
        /\ (/\ sessions[last'.sid].status = "missed"
            /\ sessions[last'.sid].notes = MissedNote(last'.reason))
              => UNCHANGED Store
        /\ mark_session_missed(last'.sid, last'.reason, sessions').ret
        /\ mark_session_missed(last'.sid, last'.reason, sessions').sessions = sessions']_vars

\* the latest call re-marked a session that was already missed for that reason
C8_Witness ==
  /\ last.op = "mark_session_missed" /\ last.ret /\ last.writes = 0
  /\ sessions[last.sid].status = "missed"
  /\ sessions[last.sid].notes = MissedNote(last.reason)

\* C9: in every reachable store and at every reading of the clock,
\* get_study_progress reports pending = total - completed - missed >= 0, and a
\* completion_rate (in tenths of a percent) that is 0 when there is no session
\* and otherwise a nearest tenth to completed / total * 100.
C9_ProgressNumbers ==
  \A n \in Nows : \A nx \in NextSessionIds(sessions, n) :
     LET p == get_study_progress(n, nx, sessions, chapters)
     IN /\ p.pending_sessions = p.total_sessions - p.completed_sessions - p.missed_sessions
        /\ p.pending_sessions >= 0
        /\ p.total_sessions = 0 => p.completion_rate = 0
        /\ p.total_sessions > 0 =>
              2 * Abs(p.completion_rate * p.total_sessions - 1000 * p.completed_sessions)
                 <= p.total_sessions

\* two of three sessions are completed and one is missed: the rate is 66.7
C9_Witness ==
  \E n \in Nows : \E nx \in NextSessionIds(sessions, n) :
     LET p == get_study_progress(n, nx, sessions, chapters)
     IN /\ p.total_sessions = 3
        /\ p.completed_sessions = 2
        /\ p.missed_sessions = 1
        /\ p.pending_sessions = 0
        /\ p.completion_rate = 667

\* hours since day 0
Hours(dt) == 24 * dt[1] + dt[2]

\* C10: at every reading of the clock and for every horizon, each list
\* get_current_schedule may return holds exactly the sessions scheduled in
\* [now, now + days_ahead] whose status is scheduled or rescheduled, each once
\* and in ascending order of scheduled time; no completed or missed session is
\* in it.
C10_CurrentSchedule ==
  \A d \in Horizons, n \in Nows :
     /\ get_current_schedule(d, n, sessions, chapters) # {}
     /\ \A rows \in get_current_schedule(d, n, sessions, chapters) :
           /\ {rows[k].id : k \in DOMAIN rows}
                = {i \in Ids(sessions) :
                      /\ Hours(n) <= Hours(sessions[i].scheduled_date)
                      /\ Hours(sessions[i].scheduled_date) <= Hours(n) + 24 * d
                      /\ sessions[i].status \in Open}
           /\ \A j, k \in DOMAIN rows :
                 j < k => /\ rows[j].id # rows[k].id
                          /\ Hours(sessions[rows[j].id].scheduled_date)
                               <= Hours(sessions[rows[k].id].scheduled_date)
           /\ \A k \in DOMAIN rows :
                 /\ sessions[rows[k].id].status \notin Closed
                 /\ rows[k].status = sessions[rows[k].id].status
                 /\ Hours(<<rows[k].scheduled_date[1], rows[k].start_time[1]>>)
                      = Hours(sessions[rows[k].id].scheduled_date)

\* a missed session lies in the window and is left out, and the rescheduled
\* session that an adaptation created for it lies in the window and is returned
C10_Witness ==
  \E d \in Horizons, n \in Nows :
     \E rows \in get_current_schedule(d, n, sessions, chapters) :
        /\ adaptations # <<>>
        /\ \E k \in DOMAIN rows :
              /\ rows[k].status = "rescheduled"
              /\ rows[k].id > adaptations[Len(adaptations)].original_session_id
        /\ \E i \in Ids(sessions) :
              /\ sessions[i].status = "missed"
              /\ DtLeq(n, sessions[i].scheduled_date)
              /\ DtLeq(sessions[i].scheduled_date, DtAddDays(n, d))
              /\ \A k \in DOMAIN rows : rows[k].id # i

\* the sessions scheduled at or after now whose status is scheduled or
\* rescheduled
FutureOpen(n) ==
  {i \in Ids(sessions) : /\ Hours(n) <= Hours(sessions[i].scheduled_date)
                         /\ sessions[i].status \in Open}

\* what get_study_progress reports as next_session is absent exactly when no
\* session is scheduled at or after now with status scheduled or rescheduled,
\* and otherwise is one of those sessions, none of which is scheduled earlier
NextIsEarliest(n, p) ==
  /\ (FutureOpen(n) = {}) = (p.next_session = <<>>)
  /\ p.next_session # <<>> =>
        /\ p.next_session[1].id \in FutureOpen(n)
        /\ p.next_session[1].scheduled_date = sessions[p.next_session[1].id].scheduled_date
        /\ p.next_session[1].chapter_title
             = chapters[sessions[p.next_session[1].id].chapter_id].title
        /\ \A j \in FutureOpen(n) :
              Hours(p.next_session[1].scheduled_date) <= Hours(sessions[j].scheduled_date)

\* C11 as stated: get_study_progress reports as next_session the earliest
\* session scheduled at or after now with status scheduled or rescheduled, none
\* when there is none, and whenever get_current_schedule is non-empty its
\* first entry is that same session.
C11_NextIsFirstOfSchedule ==
  \A n \in Nows : \A nx \in NextSessionIds(sessions, n) :
     LET p == get_study_progress(n, nx, sessions, chapters)
     IN /\ NextIsEarliest(n, p)
        /\ \A d \in Horizons : \A rows \in get_current_schedule(d, n, sessions, chapters) :
              rows # <<>> => /\ p.next_session # <<>>
                             /\ rows[1].id = p.next_session[1].id

\* C11 amended: next_session is an earliest session scheduled at or after now
\* with status scheduled or rescheduled, none when there is none; whenever
\* get_current_schedule is non-empty its first entry has the scheduled time of
\* next_session, and is that same session when no other such session shares
\* that scheduled time.
C11_NextMatchesFirstTime ==
  \A n \in Nows : \A nx \in NextSessionIds(sessions, n) :
     LET p == get_study_progress(n, nx, sessions, chapters)
     IN /\ NextIsEarliest(n, p)
        /\ \A d \in Horizons : \A rows \in get_current_schedule(d, n, sessions, chapters) :
              rows # <<>> =>
                 /\ p.next_session # <<>>
                 /\ Hours(<<rows[1].scheduled_date[1], rows[1].start_time[1]>>)
                      = Hours(p.next_session[1].scheduled_date)
                 /\ (\A j \in FutureOpen(n) \ {p.next_session[1].id} :
                        sessions[j].scheduled_date # p.next_session[1].scheduled_date)
                    => rows[1].id = p.next_session[1].id

\* two sessions with status scheduled share the earliest scheduled time: one
\* may be reported as next_session while the other heads the schedule; a
\* completed session scheduled no later is passed over
C11_Witness ==
  \E n \in Nows : \E nx \in NextSessionIds(sessions, n) :
     \E d \in Horizons : \E rows \in get_current_schedule(d, n, sessions, chapters) :
        /\ rows # <<>>
        /\ rows[1].id # nx
        /\ nx # 0
        /\ sessions[rows[1].id].scheduled_date = sessions[nx].scheduled_date
        /\ \E i \in Ids(sessions) :
              /\ sessions[i].status = "completed"
              /\ DtLeq(n, sessions[i].scheduled_date)
              /\ DtLeq(sessions[i].scheduled_date, sessions[nx].scheduled_date)

\* _fallback_schedule has returned
FallbackScheduleDone == last.op = "_fallback_schedule" /\ last.pc = "done"

RECURSIVE TotalHours(_)
TotalHours(chapters_data) ==
  IF chapters_data = <<>> THEN 0
  ELSE Head(chapters_data).estimated_hours + TotalHours(Tail(chapters_data))

RECURSIVE DayHours(_)
DayHours(descs) ==
  IF descs = <<>> THEN 0 ELSE Head(descs).duration_hours[1] + DayHours(Tail(descs))

\* the <<day, position>> entries of a schedule that plan the chapter titled t
Placements(schedule, t) ==
  {dk \in UNION {{<<d, k>> : k \in DOMAIN schedule[d].sessions} : d \in DOMAIN schedule} :
      schedule[dk[1]].sessions[dk[2]].chapter_title = t}

EveryChapterPlanned(chapters_data, schedule) ==
  \A k \in DOMAIN chapters_data : Placements(schedule, chapters_data[k].title) # {}

\* C12 as stated: when the chapters' total estimated hours is at most
\* daily_hours * number_of_days_between(start, end) + 1 (read either as
\* daily_hours times the days of the plan, or as daily_hours times the days
\* between plus one hour; both are required here), _fallback_schedule plans
\* every chapter on some day.
C12_TotalHoursSuffice ==
  FallbackScheduleDone =>
     LET g == last.args.plan_config
         c == last.args.chapters_data
     IN /\ TotalHours(c) <= g.daily_hours * (g.end_date - g.start_date + 1)
        /\ TotalHours(c) <= g.daily_hours * (g.end_date - g.start_date) + 2
        => EveryChapterPlanned(c, last.out)

\* C12 amended: when no chapter's estimated hours exceed daily_hours and the
\* plan has at least as many days, from start to end, as there are chapters,
\* _fallback_schedule plans every chapter on some day.
C12_OneChapterPerDaySuffices ==
  FallbackScheduleDone =>
     LET g == last.args.plan_config
         c == last.args.chapters_data
     IN /\ \A k \in DOMAIN c : c[k].estimated_hours <= g.daily_hours
        /\ Len(c) <= g.end_date - g.start_date + 1
        => EveryChapterPlanned(c, last.out)

\* three chapters, none of which shares a day with another, planned on the
\* three days of the plan
C12_Witness ==
  /\ FallbackScheduleDone
  /\ Len(last.args.chapters_data) = 3
  /\ last.args.plan_config.end_date = 3
  /\ \A k \in DOMAIN last.args.chapters_data :
        last.args.chapters_data[k].estimated_hours <= last.args.plan_config.daily_hours
  /\ Len(last.out) = 3
  /\ EveryChapterPlanned(last.args.chapters_data, last.out)

\* C13: in the schedule _fallback_schedule returns, whatever the chapters and
\* the dates, the durations planned on a day sum to at most daily_hours, each
\* duration is its chapter's estimated hours, no chapter is planned twice, and
\* the days are distinct, non-empty and in ascending order.
C13_DailyBudgetKept ==
  FallbackScheduleDone =>
     LET g == last.args.plan_config
         c == last.args.chapters_data
     IN /\ \A d \in DOMAIN last.out :
              /\ DayHours(last.out[d].sessions) <= g.daily_hours
              /\ last.out[d].sessions # <<>>
              /\ \A e \in DOMAIN last.out : d < e => last.out[d].date[1] < last.out[e].date[1]
              /\ \A k \in DOMAIN last.out[d].sessions :
                    \E j \in DOMAIN c :
                       /\ c[j].title = last.out[d].sessions[k].chapter_title
                       /\ <<c[j].estimated_hours>> = last.out[d].sessions[k].duration_hours
        /\ \A k \in DOMAIN c : Cardinality(Placements(last.out, c[k].title)) <= 1

\* the second chapter does not fit beside the first and is planned a day
\* later, while the third one joins the first
C13_Witness ==
  /\ FallbackScheduleDone
  /\ Len(last.out) = 2
  /\ Len(last.out[1].sessions) = 2
  /\ last.out[1].sessions[2].chapter_title = <<"Chapter", 3>>
  /\ last.out[2].sessions[1].chapter_title = <<"Chapter", 2>>
  /\ DayHours(last.out[1].sessions) < last.args.plan_config.daily_hours
  /\ DayHours(last.out[1].sessions) + DayHours(last.out[2].sessions)
        > last.args.plan_config.daily_hours

\* the request failed, or the content is missing or cannot be parsed, neither
\* as it is nor between its braces
OracleFailed(outcome) ==
  \/ outcome.request \in {"transport_error", "timeout", "http_error"}
  \/ outcome.request = "ok" /\ outcome.kind \in {"no_content", "garbled", "plain"}

\* C14: when the oracle request fails or its response cannot be parsed,
\* directly or after extraction, each of break_down_subjects,
\* create_study_schedule and adapt_schedule_for_missed_session returns without
\* raising, and returns what its fallback generator returns for the same
\* arguments.
C14_FailureGivesFallback ==
  /\ last.op = "break_down_subjects" /\ OracleFailed(last.outcome) =>
        ~last.raised /\ last.out = fallback_subject_breakdown(last.args.subjects_data)
  /\ last.op = "create_study_schedule" /\ OracleFailed(last.outcome) =>
        /\ ~last.raised
        /\ last.out = fallback_schedule(last.args.chapters_data, last.args.plan_config)
  /\ last.op = "adapt_schedule_for_missed_session" /\ OracleFailed(last.outcome) =>
        ~last.raised /\ last.out = fallback_adaptation(last.args.now)

\* create_study_schedule got text whose braces hold no JSON and returned a
\* fallback schedule of two days
C14_Witness ==
  /\ last.op = "create_study_schedule"
  /\ last.outcome.request = "ok" /\ last.outcome.kind = "garbled"
  /\ ~last.raised
  /\ Len(last.out) = 2

\* a frame of one of the three fallback generators
FallbackFrame ==
  last.op \in {"_fallback_subject_breakdown", "_fallback_schedule", "_fallback_adaptation"}

C16_SameTimeNextDay ==
  last.op = "_fallback_adaptation" =>
     /\ last.out.reschedule_missed # <<>>
     /\ last.out.reschedule_missed[1].new_date = <<last.args.now[1] + 1>>
     /\ last.out.reschedule_missed[1].new_time = last.args.missed_session.start_time

\* what a successful application of adaptation_plan to the session sid adds
\* to the sessions
RescheduledAsPlanned(adaptation_plan, sid) ==
  LET info == adaptation_plan.reschedule_missed
  IN IF info # <<>>
     THEN /\ Len(sessions') = Len(sessions) + 1
          /\ LET new_session == sessions'[Len(sessions')]
             IN /\ new_session.chapter_id = sessions[sid].chapter_id
                /\ new_session.scheduled_date = <<info[1].new_date[1], info[1].new_time[1]>>
                /\ new_session.duration_hours =
                      sessions[sid].duration_hours
                        + (IF info[1].duration_adjustment = <<>> THEN 0
                           ELSE info[1].duration_adjustment[1])
                /\ new_session.status = "rescheduled"
     ELSE Len(sessions') = Len(sessions)

\* C17: a successful apply_schedule_adaptation, called directly or by
\* miss_session, whose plan has a reschedule_missed block adds exactly one
\* session: the original session's chapter, the block's new_date and new_time,
\* the original duration plus the block's duration_adjustment (0 when the
\* block has none), status rescheduled; with no block it adds no session.
C17_BlockMakesOneSession ==
  [][/\ last'.op = "apply_schedule_adaptation" /\ last'.ret =>
          \A p \in AdaptationPlans :
             ApplyScheduleAdaptation(p, last'.sid, last'.reason) =>
                RescheduledAsPlanned(p, last'.sid)
     /\ last'.op = "miss_session" /\ last'.ret /\ ~last'.exc =>
          \A p \in RouteAdaptations :
             MissSession(last'.sid, last'.reason, p) => RescheduledAsPlanned(p, last'.sid)
    ]_vars

\* a direct application has added a rescheduled session for the original
\* session's chapter that is longer than the original by the block's
\* adjustment
C17_Witness ==
  /\ last.op = "apply_schedule_adaptation" /\ last.ret
  /\ Len(sessions) >= 2
  /\ sessions[Len(sessions)].status = "rescheduled"
  /\ sessions[Len(sessions)].chapter_id = sessions[last.sid].chapter_id
  /\ sessions[Len(sessions)].scheduled_date = <<2, 14>>
  /\ sessions[Len(sessions)].duration_hours = sessions[last.sid].duration_hours + 1

\* C18: a step of any operation but the full reset keeps every session, as
\* the same session of the same chapter, and keeps every adaptation record as
\* it was, at its place: sessions and adaptation records are only added.
C18_OnlyResetDeletes ==
  [][last'.op # "reset_schedule" =>
        /\ Len(sessions') >= Len(sessions)
        /\ \A i \in Ids(sessions) : sessions'[i].chapter_id = sessions[i].chapter_id
        /\ Len(adaptations') >= Len(adaptations)
        /\ SubSeq(adaptations', 1, Len(adaptations)) = adaptations
    ]_vars

\* a second adaptation of the same original session has been recorded beside
\* the first, under another reason
C18_Witness ==
  /\ last.op = "apply_schedule_adaptation" /\ last.ret
  /\ \E i, j \in Ids(adaptations) :
        /\ i < j
        /\ adaptations[i].original_session_id = adaptations[j].original_session_id
        /\ adaptations[i].adaptation_reason # adaptations[j].adaptation_reason
  /\ \E i \in Ids(sessions) : sessions[i].status = "missed"

\* C19: a reset-schedule request that succeeds leaves no subject, chapter,
\* session, plan or adaptation record, whatever the store held, adaptation
\* records of existing sessions included; one that fails, at any of its
\* statements, leaves the five tables as they were.
C19_ResetAllOrNothing ==
  [][last'.op = "reset_schedule" =>
        IF last'.ret
        THEN /\ subjects' = <<>> /\ chapters' = <<>> /\ sessions' = <<>>
             /\ study_plans' = <<>> /\ adaptations' = <<>>
        ELSE /\ last'.exc
             /\ UNCHANGED <<subjects, chapters, sessions, study_plans, adaptations>>
    ]_vars

\* a reset has failed after it had deleted the sessions, and the store still
\* holds them with an adaptation record of one of them
C19_Witness ==
  /\ last.op = "reset_schedule" /\ ~last.ret
  /\ last.writes > 0
  /\ last.writes = Len(sessions)
  /\ \E a \in Ids(adaptations) : adaptations[a].original_session_id \in Ids(sessions)
  /\ subjects # <<>> /\ chapters # <<>> /\ study_plans # <<>>

\* the sessions that a step has created as, or moved to, rescheduled
NewlyRescheduled ==
  {i \in Ids(sessions') :
     /\ sessions'[i].status = "rescheduled"
     /\ i \in Ids(sessions) => sessions[i].status # "rescheduled"}

\* C20: in every committed store a rescheduled session exists only beside an
\* adaptation record; a commit that creates a rescheduled session or moves a
\* session to rescheduled adds the one adaptation record of that application;
\* and inside an application, whenever a session has been added or moved, the
\* pending changes already hold that record, also when a later entry raises.
C20_RescheduledHasRecord ==
  /\ []((\E i \in Ids(sessions) : sessions[i].status = "rescheduled") => adaptations # <<>>)
  /\ [][NewlyRescheduled # {} =>
           /\ last'.op \in {"apply_schedule_adaptation", "miss_session"}
           /\ adaptations' =
                 Append(adaptations,
                        AdaptationRecord(last'.sid,
                                         IF last'.op = "miss_session"
                                         THEN MissedLabel(last'.reason) ELSE last'.reason))
       ]_vars
  /\ [](\A sid \in Ids(sessions), p \in AdaptationPlans, l \in Labels :
           LET w == AdaptationWork(p, sid, l, chapters, sessions, adaptations)
           IN w.writes > 0 => w.adaptations = Append(adaptations, AdaptationRecord(sid, l)))

\* an application has added a rescheduled session and moved a scheduled one,
\* and its record is the latest
C20_Witness ==
  /\ last.op = "apply_schedule_adaptation" /\ last.ret
  /\ last.writes = 2
  /\ \E i \in Ids(sessions) : i < Len(sessions) /\ sessions[i].status = "rescheduled"
  /\ sessions[Len(sessions)].status = "rescheduled"
  /\ adaptations # <<>>
  /\ adaptations[Len(adaptations)].original_session_id = last.sid

\* the positions in chapters_data of the chapters a schedule plans on date t
PlannedOn(chapters_data, schedule, t) ==
  {k \in DOMAIN chapters_data :
     \E d \in DOMAIN schedule :
        /\ schedule[d].date = <<t>>
        /\ \E j \in DOMAIN schedule[d].sessions :
              schedule[d].sessions[j].chapter_title = chapters_data[k].title}

RECURSIVE HoursOf(_, _)
HoursOf(chapters_data, S) ==
  IF S = {} THEN 0
  ELSE LET k == CHOOSE x \in S : TRUE
       IN chapters_data[k].estimated_hours + HoursOf(chapters_data, S \ {k})

\* C21: on each day of the plan, a chapter that no earlier day holds is
\* planned on that day exactly when its hours fit in daily_hours less the hours
\* of the chapters before it in the input that the day holds; a chapter that
\* does not fit is left for a later day and the chapters after it are still
\* considered; a day lists its chapters in input order.
C21_FirstFitInInputOrder ==
  FallbackScheduleDone =>
     LET g == last.args.plan_config
         c == last.args.chapters_data
         on(t) == PlannedOn(c, last.out, t)
     IN /\ \A t \in g.start_date..g.end_date : \A k \in DOMAIN c :
              (\A u \in g.start_date..(t - 1) : k \notin on(u)) =>
                 (k \in on(t) <=>
                    c[k].estimated_hours
                       <= g.daily_hours - HoursOf(c, {j \in on(t) : j < k}))
        /\ \A d \in DOMAIN last.out : \A i, j \in DOMAIN last.out[d].sessions :
              i < j => \E a, b \in DOMAIN c :
                          /\ a < b
                          /\ c[a].title = last.out[d].sessions[i].chapter_title
                          /\ c[b].title = last.out[d].sessions[j].chapter_title

\* a budget of 4 hours and chapters of 2, 3 and 1 hours: chapters 1 and 3 on
\* the start day, chapter 2 on the next
C21_Witness ==
  /\ FallbackScheduleDone
  /\ last.args.plan_config.daily_hours = 8
  /\ Len(last.args.chapters_data) = 3
  /\ last.args.chapters_data[1].estimated_hours = 4
  /\ last.args.chapters_data[2].estimated_hours = 6
  /\ last.args.chapters_data[3].estimated_hours = 2
  /\ last.out = <<Day(<<1>>, <<Desc(<<"Chapter", 1>>, <<9>>, <<4>>),
                               Desc(<<"Chapter", 3>>, <<9>>, <<2>>)>>),
                  Day(<<2>>, <<Desc(<<"Chapter", 2>>, <<9>>, <<6>>)>>)>>

\* the entries of a plan that can move a session of the store: change_type
\* reschedule, and a title that some chapter has
MovingEntries(adaptation_plan) ==
  {k \in DOMAIN adaptation_plan.schedule_adjustments :
     /\ adaptation_plan.schedule_adjustments[k].change_type = "reschedule"
     /\ \E c \in Ids(chapters) :
           chapters[c].title = adaptation_plan.schedule_adjustments[k].original_session}

\* the sessions that existed before a step and differ after it
Changed == {i \in Ids(sessions) : sessions'[i] # sessions[i]}

\* a successful application of adaptation_plan has changed the existing
\* sessions as its adjustment entries say
AdjustedAsPlanned(adaptation_plan) ==
  LET entries == adaptation_plan.schedule_adjustments
      named(k) == Min({c \in Ids(chapters) : chapters[c].title = entries[k].original_session})
      open_of(c) == {i \in Ids(sessions) : sessions[i].chapter_id = c
                                           /\ sessions[i].status = "scheduled"}
  IN /\ Len(sessions') = Len(sessions)
                           + (IF adaptation_plan.reschedule_missed # <<>> THEN 1 ELSE 0)
     /\ Cardinality(Changed) <= Cardinality(MovingEntries(adaptation_plan))
     /\ \A i \in Changed :
           \E k \in MovingEntries(adaptation_plan) :
              /\ sessions[i].chapter_id = named(k)
              /\ sessions[i].status = "scheduled"
              /\ Cardinality({j \in open_of(named(k)) : j < i})
                    < Cardinality({m \in MovingEntries(adaptation_plan) : named(m) = named(k)})
              /\ sessions'[i] = [sessions[i] EXCEPT
                                   !.scheduled_date = <<entries[k].new_date[1],
                                                        entries[k].new_time[1]>>,
                                   !.status = "rescheduled"]
     /\ \A k \in MovingEntries(adaptation_plan) :
           open_of(named(k)) # {} => Min(open_of(named(k))) \in Changed

\* C22: in a successful apply_schedule_adaptation every adjustment entry with
\* change_type reschedule moves at most one existing session, the first
\* scheduled session of the first chapter with the entry's title, to the
\* entry's date and time with status rescheduled, and adds no session; entries
\* with another change_type, with a title no chapter has, or whose chapter has
\* no scheduled session change nothing.
C22_EntryMovesFirstScheduled ==
  [][last'.op = "apply_schedule_adaptation" /\ last'.ret =>
        \A p \in AdaptationPlans :
           ApplyScheduleAdaptation(p, last'.sid, last'.reason) => AdjustedAsPlanned(p)
    ]_vars

\* an application without a reschedule block has moved the first scheduled
\* session of chapter 1 and left a later scheduled session of that chapter
C22_Witness ==
  /\ last.op = "apply_schedule_adaptation" /\ last.ret
  /\ last.writes = 1
  /\ \E i, j \in Ids(sessions) :
        /\ i < j
        /\ sessions[i].chapter_id = sessions[j].chapter_id
        /\ chapters[sessions[i].chapter_id].title = Ch1
        /\ sessions[i].status = "rescheduled" /\ sessions[i].scheduled_date = <<2, 14>>
        /\ sessions[j].status = "scheduled"
  /\ \A i \in Ids(sessions) : sessions[i].status \in {"scheduled", "rescheduled"}
  /\ Cardinality({i \in Ids(sessions) : sessions[i].status = "rescheduled"}) = 1

\* request r has just applied the plan it held
Applied(r) == last.req[r].pc = "planned" /\ last'.req[r].pc = "done"

\* C23: when a request applies the plan of _fallback_adaptation, the
\* application succeeds and adds one adaptation record and one rescheduled
\* session of the missed session's chapter and duration, on the day after now
\* at 14:00, and leaves every session that existed as it was: status,
\* scheduled time, duration.
C23_FallbackPlanTouchesNothingElse ==
  [][\A r \in Requests, now \in Nows :
        Applied(r) /\ last.req[r].plan = <<fallback_adaptation(now)>> =>
           LET sid == last.req[r].sid
           IN /\ last'.req[r].rescheduled
              /\ adaptations' = Append(adaptations,
                                       AdaptationRecord(sid, MissedLabel(last.req[r].reason)))
              /\ Len(sessions') = Len(sessions) + 1
              /\ sessions'[Len(sessions')].status = "rescheduled"
              /\ sessions'[Len(sessions')].chapter_id = sessions[sid].chapter_id
              /\ sessions'[Len(sessions')].duration_hours = sessions[sid].duration_hours
              /\ sessions'[Len(sessions')].scheduled_date = <<now[1] + 1, 14>>
              /\ \A i \in Ids(sessions) : sessions'[i] = sessions[i]
    ]_vars

\* a request has applied the fallback plan: a rescheduled copy of the missed
\* session exists for the next day, and two scheduled sessions, one of them of
\* the same chapter, are where they were
C23_Witness ==
  \E r \in Requests :
     /\ last.req[r].pc = "done" /\ last.req[r].rescheduled
     /\ last.req[r].plan = <<fallback_adaptation(<<1, 9>>)>>
     /\ \A q \in Requests \ {r} : last.req[q].pc = "idle"
     /\ Len(sessions) = 4
     /\ sessions[last.req[r].sid].status = "missed"
     /\ sessions[4].status = "rescheduled"
     /\ sessions[4].scheduled_date = <<2, 14>>
     /\ sessions[4].duration_hours = sessions[last.req[r].sid].duration_hours
     /\ \E i, k \in 1..3 :
           /\ i # k
           /\ sessions[i].status = "scheduled" /\ sessions[k].status = "scheduled"
           /\ sessions[i].chapter_id = sessions[last.req[r].sid].chapter_id

\* C24: a create_schedule request in which generating or materializing the
\* schedule raises leaves the five tables as they were before the request: no
\* session and no StudyPlan of the request is persisted.
C24_FailedCreateLeavesStore ==
  [][last'.op = "create_schedule" /\ last'.exc =>
        UNCHANGED <<subjects, chapters, sessions, study_plans, adaptations>>
    ]_vars

\* the adaptation records that reference the session sid
RecordsOf(sid) == {k \in Ids(adaptations) : adaptations[k].original_session_id = sid}

\* request r holds a plan of _fallback_adaptation
HoldsFallbackPlan(r) == \E now \in Nows : last.req[r].plan = <<fallback_adaptation(now)>>

\* C25: however the steps of two miss_session requests interleave, a session
\* has one adaptation record for every request that applied a plan to it, and
\* two requests for the same session that both applied the fallback plan leave
\* two records of that session and two rescheduled sessions of its chapter:
\* the second request is not refused.
C25_EachRequestAdapts ==
  /\ \A sid \in Ids(sessions) :
        Cardinality(RecordsOf(sid))
           = Cardinality({r \in Requests : /\ last.req[r].pc = "done"
                                           /\ last.req[r].sid = sid
                                           /\ last.req[r].rescheduled})
  /\ \A sid \in Ids(sessions) :
        (\A r \in Requests : /\ last.req[r].pc = "done" /\ last.req[r].sid = sid
                             /\ HoldsFallbackPlan(r))
        => /\ \A r \in Requests : last.req[r].rescheduled
           /\ Cardinality(RecordsOf(sid)) = Cardinality(Requests)
           /\ Cardinality({i \in Ids(sessions) :
                             /\ sessions[i].status = "rescheduled"
                             /\ sessions[i].chapter_id = sessions[sid].chapter_id
                             /\ sessions[i].scheduled_date = <<2, 14>>
                             /\ sessions[i].duration_hours = sessions[sid].duration_hours})
                 = Cardinality(Requests)
           /\ sessions[sid].status = "missed"

\* both requests named session 1, both applied the fallback plan: two records
\* of session 1 and two rescheduled sessions after the one that was planned
C25_Witness ==
  /\ \A r \in Requests : /\ last.req[r].pc = "done" /\ last.req[r].sid = 1
                         /\ last.req[r].rescheduled /\ HoldsFallbackPlan(r)
  /\ Len(adaptations) = 2
  /\ \A k \in Ids(adaptations) : adaptations[k].original_session_id = 1
  /\ Len(sessions) = 3
  /\ sessions[1].status = "missed"
  /\ sessions[2].status = "rescheduled" /\ sessions[3].status = "rescheduled"

\* C26: from the first commit of a miss_session request for an existing
\* session on, the session is missed in the store, before the agent is asked
\* and whatever the application returns; the marking commits nothing but the
\* session's status and notes; and an application that fails commits nothing:
\* no adaptation record, no rescheduled session.
C26_MissedWhateverTheAdaptation ==
  /\ [](\A r \in Requests :
           last.req[r].pc \in {"marked", "planned", "done"} =>
              /\ last.req[r].sid \in Ids(sessions)
              /\ sessions[last.req[r].sid].status = "missed")
  /\ [][\A r \in Requests :
           /\ last.req[r].pc = "idle" /\ last'.req[r].pc = "marked" =>
                 /\ adaptations' = adaptations
                 /\ sessions' = [sessions EXCEPT
                                   ![last'.req[r].sid].status = "missed",
                                   ![last'.req[r].sid].notes = MissedNote(last'.req[r].reason)]
           /\ Applied(r) /\ ~last'.req[r].rescheduled =>
                 /\ adaptations' = adaptations
                 /\ sessions' = sessions
       ]_vars

\* a request whose plan did not parse is done: its session is missed, and the
\* store has no adaptation record and no rescheduled session
C26_Witness ==
  \E r \in Requests :
     /\ last.req[r].pc = "done" /\ ~last.req[r].rescheduled
     /\ last.req[r].plan = <<Plan(BadBlock, <<>>)>>
     /\ sessions[last.req[r].sid].status = "missed"
     /\ adaptations = <<>>
     /\ \A i \in Ids(sessions) : sessions[i].status # "rescheduled"

C28_PendingIsOpen ==
  /\ \A i \in Ids(sessions) :
        sessions[i].status \in {"scheduled", "completed", "missed", "rescheduled"}
  /\ \A n \in Nows : \A nx \in NextSessionIds(sessions, n) :
        get_study_progress(n, nx, sessions, chapters).pending_sessions
           = Cardinality({i \in Ids(sessions) :
                            sessions[i].status \in {"scheduled", "rescheduled"}})

\* a store with a missed and a rescheduled session: one of two is pending
C28_Witness ==
  /\ Len(sessions) = 2
  /\ \E j, k \in Ids(sessions) :
        /\ sessions[j].status = "missed"
        /\ sessions[k].status = "rescheduled"
  /\ \A n \in Nows : \A nx \in NextSessionIds(sessions, n) :
        get_study_progress(n, nx, sessions, chapters).pending_sessions = 1

\* C29: in every store that add-subjects, create-schedule, complete, miss,
\* adaptation and reset requests leave, each adaptation record names a
\* session of the store, each session a chapter of the store, and each chapter
\* a subject of the store.
C29_ReferencesResolve ==
  /\ \A k \in Ids(adaptations) : adaptations[k].original_session_id \in Ids(sessions)
  /\ \A i \in Ids(sessions) : sessions[i].chapter_id \in Ids(chapters)
  /\ \A c \in Ids(chapters) : chapters[c].subject_id \in Ids(subjects)

\* miss_session has left a record of session 1 and a rescheduled session of
\* a chapter of the one subject
C29_Witness ==
  /\ last.op = "miss_session" /\ last.ret /\ ~last.exc
  /\ Len(subjects) = 1 /\ Len(chapters) = 2
  /\ Len(adaptations) = 1 /\ adaptations[1].original_session_id = 1
  /\ Len(sessions) = 2
  /\ sessions[2].status = "rescheduled"
  /\ chapters[sessions[2].chapter_id].subject_id = 1

====
